---- MODULE Spec2Model ----
(***************************************************************************)
(* micrograd/engine.py: the scalar reverse-mode autodiff engine.           *)
(*                                                                         *)
(* The heap of Value objects is the sequence `nodes` (a Value's identity   *)
(* is its index), the class attribute Value.do_autograd is the variable    *)
(* do_autograd, and a call of backward() is a start (build_topo and the    *)
(* seeding of the root) followed by one step per `val._backward()`.        *)
(*                                                                         *)
(* Numbers.  The engine computes on floats; the model computes exactly.    *)
(* A number is a polynomial with integer coefficients over symbolic atoms, *)
(* represented as a function from monomials to non-zero coefficients; a    *)
(* monomial is a function from atoms to non-zero (possibly negative)       *)
(* exponents.  The atoms are the step Value.h and, for the transcendental  *)
(* functions of the math library, the value f(x) of a function f at an     *)
(* argument x.  f(x + h) is expanded by Taylor's theorem with remainder:   *)
(* f(x) + h*f'(x) + h^2*R_f(x), with R_f(x) an atom of its own.  So        *)
(* (f(x+h) - f(x)) * h^-1 is computed exactly, step terms included, and    *)
(* rounding is the only thing left out.                                    *)
(***************************************************************************)
EXTENDS Integers, Sequences, FiniteSets, TLC

VARIABLES
  nodes,        \* the Value objects created so far, in creation order
  do_autograd,  \* Value.do_autograd
  pc,           \* "idle", or "backward" while backward() runs its loop
  root,         \* the Value backward() was last called on (0: none yet)
  topo,         \* backward()'s local list topo
  called,       \* the Values whose _backward the current/last pass invoked, in order
  used,         \* per Value: the branch its _backward took when last invoked
  builtUnder,   \* per Value: Value.do_autograd when the Value was created
  toggles,      \* how many times Value.do_autograd was changed
  passes,       \* the completed backward() calls: [root, flag]
  raised        \* the exception the latest call raised ("" if none)

vars == <<nodes, do_autograd, pc, root, topo, called, used, builtUnder,
          toggles, passes, raised>>

\* ------------------------------------------------------------------ bounds
MaxNodes == 3
MaxPasses == 2
MaxToggles == 1

\* the data given to Value(...) by the caller
LeafData == {-2, 0, 1}
\* the plain numbers given as the right operand of + and *
Literals == {2}
\* the int exponents given to **
Exponents == {2, 3}

\* ----------------------------------------------------------------- numbers
Zero == [m \in {} |-> 0]
Unit == [a \in {} |-> 0]
Atom(f, x) == <<f, x>>
HAtom == Atom("h", Zero)
MonoOf(a, e) == [b \in {a} |-> e]
Const(c) == IF c = 0 THEN Zero ELSE [m \in {Unit} |-> c]
AtomNum(f, x) == [m \in {MonoOf(Atom(f, x), 1)} |-> 1]

\* Value.h
H == [m \in {MonoOf(HAtom, 1)} |-> 1]
\* self.h ** -1
HInv == [m \in {MonoOf(HAtom, -1)} |-> 1]

Coef(p, m) == IF m \in DOMAIN p THEN p[m] ELSE 0

PAdd(p, q) ==
  LET D == DOMAIN p \cup DOMAIN q
  IN  [m \in {y \in D : Coef(p, y) + Coef(q, y) # 0} |-> Coef(p, m) + Coef(q, m)]

PNeg(p) == [m \in DOMAIN p |-> 0 - p[m]]

PSub(p, q) == PAdd(p, PNeg(q))

Expo(m, a) == IF a \in DOMAIN m THEN m[a] ELSE 0

MMul(m1, m2) ==
  LET D == DOMAIN m1 \cup DOMAIN m2
  IN  [a \in {y \in D : Expo(m1, y) + Expo(m2, y) # 0} |-> Expo(m1, a) + Expo(m2, a)]

RECURSIVE SumProducts(_, _, _)
SumProducts(S, p, q) ==
  IF S = {} THEN 0
  ELSE LET pr == CHOOSE z \in S : TRUE
       IN  p[pr[1]] * q[pr[2]] + SumProducts(S \ {pr}, p, q)

PMul(p, q) ==
  LET Pairs == (DOMAIN p) \X (DOMAIN q)
      c(m) == SumProducts({pr \in Pairs : MMul(pr[1], pr[2]) = m}, p, q)
  IN  [m \in {y \in {MMul(pr[1], pr[2]) : pr \in Pairs} : c(y) # 0} |-> c(m)]

RECURSIVE PPow(_, _)
PPow(p, n) == IF n = 0 THEN Const(1) ELSE PMul(p, PPow(p, n - 1))

\* p has no term in the step h
HFree(p) == \A m \in DOMAIN p : HAtom \notin DOMAIN m
\* p is built from integers and the step only
HOnly(p) == \A m \in DOMAIN p : DOMAIN m \subseteq {HAtom}
\* the part of p free of the step (what is left as h -> 0)
Std(p) == [m \in {y \in DOMAIN p : HAtom \notin DOMAIN y} |-> p[m]]

\* p > 0, for p over the step only: the step is positive and smaller than any
\* difference of the integers in play, so the lowest-order term decides
Positive(p) ==
  /\ p # Zero
  /\ LET lead == CHOOSE m \in DOMAIN p :
                   \A m2 \in DOMAIN p : Expo(m, HAtom) <= Expo(m2, HAtom)
     IN  p[lead] > 0

\* f'(x) for the math-library functions, in terms of their values at x
Deriv(f, x) ==
  CASE f = "exp" -> AtomNum("exp", x)
    [] f = "tanh" -> PSub(Const(1), PPow(AtomNum("tanh", x), 2))
    [] f = "sigmoid" -> PMul(AtomNum("sigmoid", x), PSub(Const(1), AtomNum("sigmoid", x)))
    [] f = "softplus" -> AtomNum("sigmoid", x)

Remainder(f) ==
  CASE f = "exp" -> "R_exp"
    [] f = "tanh" -> "R_tanh"
    [] f = "sigmoid" -> "R_sigmoid"
    [] f = "softplus" -> "R_softplus"

\* f(y): y is a Value's data x (free of the step) or the perturbed x + h
MathFn(f, y) ==
  IF HFree(y) THEN AtomNum(f, y)
  ELSE LET x == PSub(y, H)
       IN  PAdd(AtomNum(f, x),
                PAdd(PMul(H, Deriv(f, x)),
                     PMul(PMul(H, H), AtomNum(Remainder(f), x))))

\* ------------------------------------------------------------------ Values
NoBackward == [fn |-> "noop", self |-> 0, other |-> 0]

\* Value.__init__
Value(data, children, op, label) ==
  [data |-> data, grad |-> Zero, _backward |-> NoBackward,
   _prev |-> children, _op |-> op, label |-> label]

ValueRef(i) == [isValue |-> TRUE, v |-> i]
Plain(k) == [isValue |-> FALSE, v |-> k]

Ids == 1..Len(nodes)

\* the object an argument stands for: a Value, or the plain number itself
Obj(ns, ref) == IF ref.isValue THEN ns[ref.v] ELSE ref.v

\* the local forward functions of the operators
_add(a, b) == PAdd(a.data, b.data)
_mul(a, b) == PMul(a.data, b.data)
_pow(a, b) == PPow(a.data, b)
_relu(a) == IF Positive(a.data) THEN a.data ELSE Zero
_exp(a) == MathFn("exp", a.data)
_tanh(a) == MathFn("tanh", a.data)
_sigmoid(a) == MathFn("sigmoid", a.data)
_softplus(a) == MathFn("softplus", a.data)

Call(func, objs) ==
  CASE func = "_mul" -> _mul(objs[1], objs[2])
    [] func = "_pow" -> _pow(objs[1], objs[2])
    [] func = "_relu" -> _relu(objs[1])
    [] func = "_exp" -> _exp(objs[1])
    [] func = "_tanh" -> _tanh(objs[1])
    [] func = "_sigmoid" -> _sigmoid(objs[1])
    [] func = "_softplus" -> _softplus(objs[1])

\* Value._autograd: every argument that is the object wrt is replaced by a new
\* Value holding its data plus h
_autograd(ns, func, args, wrt) ==
  LET perturbed(ref) ==
        LET arg == Value(ns[ref.v].data, {}, <<"">>, <<>>)
        IN  [arg EXCEPT !.data = PAdd(@, H)]
      h_args == [k \in DOMAIN args |->
                   IF args[k].isValue /\ args[k].v = wrt
                   THEN perturbed(args[k])
                   ELSE Obj(ns, args[k])]
      plain == [k \in DOMAIN args |-> Obj(ns, args[k])]
  IN  PMul(PSub(Call(func, h_args), Call(func, plain)), HInv)

\* ------------------------------------------------------------ construction
Fresh(ns, out) ==
  /\ nodes' = Append(ns, out)
  /\ builtUnder' = builtUnder \o [k \in 1..(Len(ns) + 1 - Len(nodes)) |-> do_autograd]
  /\ used' = used \o [k \in 1..(Len(ns) + 1 - Len(nodes)) |-> ""]
  /\ raised' = ""
  /\ UNCHANGED <<do_autograd, pc, root, topo, called, toggles, passes>>

\* other if isinstance(other, Value) else Value(other, label=str(other))
Wrapped(other) ==
  IF other.isValue THEN nodes
  ELSE Append(nodes, Value(Const(other.v), {}, <<"">>, <<other.v>>))

OtherId(other) == IF other.isValue THEN other.v ELSE Len(nodes) + 1

\* a = Value(d)
NewValue(d) ==
  /\ pc = "idle"
  /\ Fresh(nodes, Value(Const(d), {}, <<"">>, <<>>))

add(self, other) ==
  /\ pc = "idle"
  /\ LET ns == Wrapped(other)
         o == OtherId(other)
         v == _add(ns[self], ns[o])
         out == Value(v, {self, o}, <<"+">>, <<>>)
     IN  Fresh(ns, [out EXCEPT !._backward = [fn |-> "add", self |-> self, other |-> o]])

mul(self, other) ==
  /\ pc = "idle"
  /\ LET ns == Wrapped(other)
         o == OtherId(other)
         v == _mul(ns[self], ns[o])
         out == Value(v, {self, o}, <<"*">>, <<>>)
     IN  Fresh(ns, [out EXCEPT !._backward = [fn |-> "mul", self |-> self, other |-> o]])

tanh_out(ns, self) ==
  [Value(_tanh(ns[self]), {self}, <<"tanh">>, <<>>)
     EXCEPT !._backward = [fn |-> "tanh", self |-> self, other |-> 0]]

tanh(self) == pc = "idle" /\ Fresh(nodes, tanh_out(nodes, self))

sigmoid_out(ns, self) ==
  [Value(_sigmoid(ns[self]), {self}, <<"sigmoid">>, <<>>)
     EXCEPT !._backward = [fn |-> "sigmoid", self |-> self, other |-> 0]]

sigmoid(self) == pc = "idle" /\ Fresh(nodes, sigmoid_out(nodes, self))

softplus_out(ns, self) ==
  [Value(_softplus(ns[self]), {self}, <<"softplus">>, <<>>)
     EXCEPT !._backward = [fn |-> "softplus", self |-> self, other |-> 0]]

softplus(self) == pc = "idle" /\ Fresh(nodes, softplus_out(nodes, self))

relu_out(ns, self) ==
  [Value(_relu(ns[self]), {self}, <<"ReLU">>, <<>>)
     EXCEPT !._backward = [fn |-> "relu", self |-> self, other |-> 0]]

relu(self) == pc = "idle" /\ Fresh(nodes, relu_out(nodes, self))

exp_out(ns, self) ==
  [Value(_exp(ns[self]), {self}, <<"exp">>, <<>>)
     EXCEPT !._backward = [fn |-> "exp", self |-> self, other |-> 0]]

exp(self) == pc = "idle" /\ Fresh(nodes, exp_out(nodes, self))

pow_out(ns, self, p) ==
  [Value(_pow(ns[self], p), {self}, <<"**", p>>, <<>>)
     EXCEPT !._backward = [fn |-> "pow", self |-> self, other |-> p]]

\* a ** that takes a Value exponent by its data instead of refusing it
pow_unchecked(self, other) ==
  /\ pc = "idle"
  /\ LET e == IF other.isValue THEN Coef(nodes[other.v].data, Unit) ELSE other.v
     IN  Fresh(nodes, pow_out(nodes, self, IF e < 0 THEN 0 - e ELSE e))

\* assert isinstance(other, (int, float)): a Value as exponent raises
pow(self, other) ==
  /\ pc = "idle"
  /\ IF other.isValue
     THEN /\ raised' = "AssertionError"
          /\ UNCHANGED <<nodes, do_autograd, pc, root, topo, called, used,
                         builtUnder, toggles, passes>>
     ELSE Fresh(nodes, pow_out(nodes, self, other.v))

\* Value.do_autograd = b
set_do_autograd(b) ==
  /\ pc = "idle"
  /\ do_autograd' = b
  /\ toggles' = toggles + (IF b # do_autograd THEN 1 ELSE 0)
  /\ raised' = ""
  /\ UNCHANGED <<nodes, pc, root, topo, called, used, builtUnder, passes>>

\* ---------------------------------------------------------------- _backward
\* `=` where the code has `+=`
AddGradAssign(ns, i, g) == [ns EXCEPT ![i].grad = g]

\* x.grad += g
AddGrad(ns, i, g) == [ns EXCEPT ![i].grad = PAdd(@, g)]

\* __add__._backward
add_backward(ns, out) ==
  LET c == ns[out]._backward
      n1 == AddGrad(ns, c.self, ns[out].grad)
  IN  AddGrad(n1, c.other, n1[out].grad)

\* __mul__._backward
mul_backward(ns, out, flag) ==
  LET c == ns[out]._backward
      args == <<ValueRef(c.self), ValueRef(c.other)>>
  IN  IF flag
      THEN LET n1 == AddGrad(ns, c.self,
                             PMul(_autograd(ns, "_mul", args, c.self), ns[out].grad))
           IN  AddGrad(n1, c.other,
                       PMul(_autograd(n1, "_mul", args, c.other), n1[out].grad))
      ELSE LET n1 == AddGrad(ns, c.self, PMul(ns[c.other].data, ns[out].grad))
           IN  AddGrad(n1, c.other, PMul(n1[c.self].data, n1[out].grad))

\* tanh._backward; v is the forward value the closure captured, out.data
tanh_backward(ns, out, flag) ==
  LET c == ns[out]._backward
      v == ns[out].data
  IN  IF flag
      THEN AddGrad(ns, c.self,
                   PMul(_autograd(ns, "_tanh", <<ValueRef(c.self)>>, c.self), ns[out].grad))
      ELSE AddGrad(ns, c.self, PMul(PSub(Const(1), PPow(v, 2)), ns[out].grad))

\* sigmoid._backward
sigmoid_backward(ns, out, flag) ==
  LET c == ns[out]._backward
  IN  IF flag
      THEN AddGrad(ns, c.self,
                   PMul(_autograd(ns, "_sigmoid", <<ValueRef(c.self)>>, c.self), ns[out].grad))
      ELSE AddGrad(ns, c.self,
                   PMul(PMul(ns[out].data, PSub(Const(1), ns[out].data)), ns[out].grad))

\* softplus._backward; self.sigmoid() makes a Value that is dropped at once
softplus_backward(ns, out, flag) ==
  LET c == ns[out]._backward
  IN  IF flag
      THEN AddGrad(ns, c.self,
                   PMul(_autograd(ns, "_softplus", <<ValueRef(c.self)>>, c.self), ns[out].grad))
      ELSE AddGrad(ns, c.self, PMul(sigmoid_out(ns, c.self).data, ns[out].grad))

\* relu._backward; (self.data > 0) * out.grad
relu_backward(ns, out, flag) ==
  LET c == ns[out]._backward
  IN  IF flag
      THEN AddGrad(ns, c.self,
                   PMul(_autograd(ns, "_relu", <<ValueRef(c.self)>>, c.self), ns[out].grad))
      ELSE AddGrad(ns, c.self,
                   PMul(IF Positive(ns[c.self].data) THEN Const(1) ELSE Zero, ns[out].grad))

\* a power rule that forgets to lower the exponent
pow_backward_same_exponent(ns, out, flag) ==
  LET c == ns[out]._backward
      other == c.other
  IN  IF flag
      THEN AddGrad(ns, c.self,
                   PMul(_autograd(ns, "_pow", <<ValueRef(c.self), Plain(other)>>, c.self),
                        ns[out].grad))
      ELSE AddGrad(ns, c.self,
                   PMul(PMul(Const(other), _pow(ns[c.self], other)), ns[out].grad))

\* __pow__._backward
pow_backward(ns, out, flag) ==
  LET c == ns[out]._backward
      other == c.other
  IN  IF flag
      THEN AddGrad(ns, c.self,
                   PMul(_autograd(ns, "_pow", <<ValueRef(c.self), Plain(other)>>, c.self),
                        ns[out].grad))
      ELSE AddGrad(ns, c.self,
                   PMul(PMul(Const(other), _pow(ns[c.self], other - 1)), ns[out].grad))

\* exp._backward
exp_backward(ns, out, flag) ==
  LET c == ns[out]._backward
  IN  IF flag
      THEN AddGrad(ns, c.self,
                   PMul(_autograd(ns, "_exp", <<ValueRef(c.self)>>, c.self), ns[out].grad))
      ELSE AddGrad(ns, c.self, PMul(ns[out].data, ns[out].grad))

\* val._backward(), with flag the value `self.do_autograd` evaluates to
_backward(ns, val, flag) ==
  LET fn == ns[val]._backward.fn
  IN  CASE fn = "noop" -> ns
        [] fn = "add" -> add_backward(ns, val)
        [] fn = "mul" -> mul_backward(ns, val, flag)
        [] fn = "tanh" -> tanh_backward(ns, val, flag)
        [] fn = "sigmoid" -> sigmoid_backward(ns, val, flag)
        [] fn = "softplus" -> softplus_backward(ns, val, flag)
        [] fn = "relu" -> relu_backward(ns, val, flag)
        [] fn = "pow" -> pow_backward(ns, val, flag)
        [] fn = "exp" -> exp_backward(ns, val, flag)

\* whether a Value's _backward reads do_autograd at all
ConsultsFlag(ns, val) == ns[val]._backward.fn \notin {"noop", "add"}

\* the branch of `if self.do_autograd` a _backward takes
Branch(ns, val, flag) ==
  IF ~ConsultsFlag(ns, val) THEN "none"
  ELSE IF flag THEN "fd" ELSE "analytic"

\* a class attribute that starts out selecting the closed-form rules
do_autograd_default_off == FALSE

\* the class attribute's initial value
do_autograd_default == TRUE

\* a flag frozen into the closure when the Value is built
do_autograd_at_construction(val) == builtUnder[val]

\* `self.do_autograd` inside a _backward: an attribute lookup made when the
\* closure runs, which finds the class attribute
self_do_autograd(val) == do_autograd

\* ----------------------------------------------------------------- backward
\* `for child in v._prev`: a set's iteration order is not specified; asc picks
\* one of the two orders of a two-element set
ChildOrder(S, asc) ==
  IF S = {} THEN <<>>
  ELSE LET lo == CHOOSE x \in S : \A y \in S : x <= y
           hi == CHOOSE x \in S : \A y \in S : x >= y
       IN  IF lo = hi THEN <<lo>>
           ELSE IF asc THEN <<lo, hi>> ELSE <<hi, lo>>

RECURSIVE build_topo(_, _, _, _)
RECURSIVE VisitChildren(_, _, _, _)

\* st holds the closure's visited set and topo list
build_topo(ns, v, st, ord) ==
  IF v \in st.visited THEN st
  ELSE LET s1 == [st EXCEPT !.visited = @ \cup {v}]
           s2 == VisitChildren(ns, ChildOrder(ns[v]._prev, ord[v]), s1, ord)
       IN  [s2 EXCEPT !.topo = Append(@, v)]

VisitChildren(ns, kids, st, ord) ==
  IF kids = <<>> THEN st
  ELSE VisitChildren(ns, Tail(kids), build_topo(ns, Head(kids), st, ord), ord)

\* a loop that walks topo front to back
NextValForward == topo[Len(called) + 1]

\* the loop variable of `for val in reversed(topo)`
NextVal == topo[Len(topo) - Len(called)]

\* a seeding that also clears every other grad
SeedWithReset(ns, self) ==
  [k \in DOMAIN ns |-> [ns[k] EXCEPT !.grad = IF k = self THEN Const(1) ELSE Zero]]

\* self.grad = 1.0
Seed(ns, self) == [ns EXCEPT ![self].grad = Const(1)]

\* backward(): build_topo(self); self.grad = 1.0
BackwardStart(self) ==
  /\ pc = "idle"
  /\ \E ord \in [Ids -> BOOLEAN] :
       topo' = build_topo(nodes, self, [visited |-> {}, topo |-> <<>>], ord).topo
  /\ nodes' = Seed(nodes, self)
  /\ root' = self
  /\ called' = <<>>
  /\ pc' = "backward"
  /\ raised' = ""
  /\ UNCHANGED <<do_autograd, used, builtUnder, toggles, passes>>

\* backward(): one turn of `for val in reversed(topo): val._backward()`
BackwardStep ==
  /\ pc = "backward"
  /\ LET val == NextVal
         flag == self_do_autograd(val)
     IN  /\ nodes' = _backward(nodes, val, flag)
         /\ used' = [used EXCEPT ![val] = Branch(nodes, val, flag)]
         /\ called' = Append(called, val)
         /\ IF Len(called) + 1 = Len(topo)
            THEN /\ pc' = "idle"
                 /\ passes' = Append(passes, [root |-> root, flag |-> do_autograd])
            ELSE UNCHANGED <<pc, passes>>
  /\ UNCHANGED <<do_autograd, root, topo, builtUnder, toggles, raised>>

\* ------------------------------------------------------------ specification
Init ==
  /\ nodes = <<>>
  /\ do_autograd = do_autograd_default
  /\ pc = "idle"
  /\ root = 0
  /\ topo = <<>>
  /\ called = <<>>
  /\ used = <<>>
  /\ builtUnder = <<>>
  /\ toggles = 0
  /\ passes = <<>>
  /\ raised = ""

Others == {ValueRef(i) : i \in Ids} \cup {Plain(k) : k \in Literals}
Room(other, limit) == Len(nodes) + (IF other.isValue THEN 1 ELSE 2) <= limit

\* the calls that build Values, while fewer than `limit` exist
Construct(limit) ==
  \/ \E d \in LeafData : Len(nodes) < limit /\ NewValue(d)
  \/ \E self \in Ids, other \in Others : Room(other, limit) /\ add(self, other)
  \/ \E self \in Ids, other \in Others : Room(other, limit) /\ mul(self, other)
  \/ \E self \in Ids : Len(nodes) < limit /\ tanh(self)
  \/ \E self \in Ids : Len(nodes) < limit /\ sigmoid(self)
  \/ \E self \in Ids : Len(nodes) < limit /\ softplus(self)
  \/ \E self \in Ids : Len(nodes) < limit /\ HOnly(nodes[self].data) /\ relu(self)
  \/ \E self \in Ids : Len(nodes) < limit /\ exp(self)
  \/ \E self \in Ids, p \in Exponents : Len(nodes) < limit /\ pow(self, Plain(p))

\* a ** b with b a Value
PowByValue == \E self \in Ids, other \in Ids : pow(self, ValueRef(other))

\* Any caller: every call in any order, the flag set at any time.
Next ==
  \/ Construct(MaxNodes)
  \/ PowByValue
  \/ \E b \in BOOLEAN : (b = do_autograd \/ toggles < MaxToggles) /\ set_do_autograd(b)
  \/ \E self \in Ids : Len(passes) < MaxPasses /\ BackwardStart(self)
  \/ BackwardStep

Spec == Init /\ [][Next]_vars

\* A caller that builds a graph under the default flag and calls backward()
\* once.
OrderNext ==
  \/ Construct(MaxNodes)
  \/ \E self \in Ids : passes = <<>> /\ BackwardStart(self)
  \/ BackwardStep

SpecOrder == Init /\ [][OrderNext]_vars

\* A caller that builds a smaller graph, sets the flag at any time and calls
\* backward() once.
FlagNext ==
  \/ Construct(MaxNodes - 1)
  \/ \E b \in BOOLEAN : (b = do_autograd \/ toggles < MaxToggles) /\ set_do_autograd(b)
  \/ \E self \in Ids : passes = <<>> /\ BackwardStart(self)
  \/ BackwardStep

SpecFlag == Init /\ [][FlagNext]_vars

\* A caller that sets the flag before building anything, as the tests do, then
\* builds a smaller graph and calls backward() repeatedly.
RepeatNext ==
  \/ nodes = <<>> /\ \E b \in BOOLEAN : toggles < MaxToggles /\ set_do_autograd(b)
  \/ Construct(MaxNodes - 1)
  \/ PowByValue
  \/ \E self \in Ids : Len(passes) < MaxPasses /\ BackwardStart(self)
  \/ BackwardStep

SpecRepeat == Init /\ [][RepeatNext]_vars

\* The end-to-end expression of test_more_ops' first lines, on leaves drawn from
\* ScenarioData, in either mode:
\*   a = Value(..); b = Value(..); c = a + b; d = a * b + b ** 3; d.backward()
ScenarioData == {-4, -1, 0, 2, 3}

ScenarioNext ==
  \/ Len(nodes) = 0 /\ \E b \in BOOLEAN : toggles < MaxToggles /\ set_do_autograd(b)
  \/ Len(nodes) < 2 /\ \E d \in ScenarioData : NewValue(d)
  \/ Len(nodes) = 2 /\ add(1, ValueRef(2))
  \/ Len(nodes) = 3 /\ mul(1, ValueRef(2))
  \/ Len(nodes) = 4 /\ pow(2, Plain(3))
  \/ Len(nodes) = 5 /\ add(4, ValueRef(5))
  \/ Len(nodes) = 6 /\ passes = <<>> /\ BackwardStart(6)
  \/ BackwardStep

SpecScenario == Init /\ [][ScenarioNext]_vars

TypeOK ==
  /\ Len(used) = Len(nodes)
  /\ Len(builtUnder) = Len(nodes)
  /\ pc \in {"idle", "backward"}

\* ------------------------------------------------------- graph vocabulary
RECURSIVE Closure(_, _)
Closure(ns, S) ==
  LET T == S \cup UNION {ns[i]._prev : i \in S}
  IN  IF T = S THEN S ELSE Closure(ns, T)

\* the Values reachable from r through _prev, r included
Reachable(ns, r) == Closure(ns, {r})

IsLeaf(ns, n) == ns[n]._prev = {}

CalledSet == {called[k] : k \in 1..Len(called)}

ZeroGrads(ns) == [k \in DOMAIN ns |-> [ns[k] EXCEPT !.grad = Zero]]

\* the loop of backward() over a given order, in one piece
RECURSIVE RunBackward(_, _, _)
RunBackward(ns, order, flag) ==
  IF order = <<>> THEN ns
  ELSE RunBackward(_backward(ns, Head(order), flag), Tail(order), flag)

\* the whole of r.backward() on the present graph with every grad at 0, under
\* the given value of do_autograd, visiting the Values in the order `called`
FreshPass(r, flag) == RunBackward(Seed(ZeroGrads(nodes), r), called, flag)

LastPass == passes[Len(passes)]

\* exactly one backward() call has been made, and it has returned
OnePassDone == pc = "idle" /\ Len(passes) = 1

\* ------------------------------------------------------------------ claims

\* C1: for a fresh leaf a, after y = a * a and y.backward(), a.grad is
\* 2 * a.data (up to the step term), whatever do_autograd is.
C1_SharedUseIsTwiceData ==
  \A y \in Ids :
    LET c == nodes[y]._backward
    IN  (/\ c.fn = "mul" /\ c.self = c.other /\ IsLeaf(nodes, c.self)
         /\ OnePassDone /\ root = y)
        => Std(nodes[c.self].grad) = PMul(Const(2), nodes[c.self].data)

\* C2: in one backward() call every Value reachable from the root has its
\* _backward invoked exactly once, no other Value's is invoked, and a Value's
\* _backward runs only after that of every reachable Value it is an operand of.
C2_BackwardOrdering ==
  root # 0 =>
    LET R == Reachable(nodes, root)
    IN  /\ CalledSet \subseteq R
        /\ \A j, k \in 1..Len(called) : j # k => called[j] # called[k]
        /\ pc = "idle" => CalledSet = R
        /\ \A k \in 1..Len(called) : \A n \in R :
             called[k] \in nodes[n]._prev => \E j \in 1..(k - 1) : called[j] = n

\* a completed pass over three Values, one of them an operand of the two others
C2_Witness ==
  /\ pc = "idle" /\ Len(called) = 3
  /\ \E n \in Ids :
       Cardinality({m \in Reachable(nodes, root) : n \in nodes[m]._prev}) = 2

\* the strategy a value of do_autograd selects
StrategyOf(flag) == IF flag THEN "fd" ELSE "analytic"

\* C3 (as claimed): what a Value's _backward adds to its operands is what the
\* strategy selected by do_autograd at the Value's construction adds, whatever
\* do_autograd is when backward() runs.
C3_StrategyBoundAtConstruction ==
  [][pc = "backward" => nodes' = _backward(nodes, NextVal, builtUnder[NextVal])]_vars

\* C3 (amended): the strategy a Value's _backward uses is the one do_autograd
\* selects while the backward() call that invokes it runs, not the one it
\* selected when the Value was built.
C3_StrategyReadAtBackward ==
  (pc = "idle" /\ passes # <<>>) =>
    \A n \in CalledSet :
      ConsultsFlag(nodes, n) => used[n] = StrategyOf(LastPass.flag)

\* a Value built under one flag value and propagated under the other, to grads
\* that the flag value of its construction would not have given
C3_Witness ==
  /\ OnePassDone
  /\ \E n \in CalledSet :
       /\ ConsultsFlag(nodes, n)
       /\ builtUnder[n] # LastPass.flag
       /\ used[n] = StrategyOf(LastPass.flag)
       /\ nodes # FreshPass(root, builtUnder[n])

\* C4: with every grad at 0 before the call, backward() under finite
\* differences leaves on every leaf the grad that backward() under the
\* closed-form rules leaves, up to the step terms; and exactly that grad when
\* the graph is built from + and * only.
C4_ModeEquivalence ==
  OnePassDone =>
    \A n \in Ids :
      IsLeaf(nodes, n) =>
        /\ Std(nodes[n].grad) = Std(FreshPass(root, FALSE)[n].grad)
        /\ (\A m \in Reachable(nodes, root) :
              nodes[m]._backward.fn \in {"noop", "add", "mul"})
           => nodes[n].grad = FreshPass(root, FALSE)[n].grad

\* C5: for a leaf a with data 0, a.relu() has data 0 and, after its
\* backward(), a.grad is 0, under either flag value.
C5_ReluBoundary ==
  \A y \in Ids :
    LET c == nodes[y]._backward
    IN  (c.fn = "relu" /\ IsLeaf(nodes, c.self) /\ nodes[c.self].data = Zero)
        => /\ nodes[y].data = Zero
           /\ (OnePassDone /\ root = y) => nodes[c.self].grad = Zero

\* the integer a Value's data is
IntData(n) == Coef(nodes[n].data, Unit)

\* C6: with a = -4, b = 2, c = a + b, d = a*b + b**3 under the closed-form
\* rules: c.data = -2, d.data = 0, and after d.backward() d.grad = 1,
\* a.grad = 2 = b.data, b.grad = 8 = a.data + 3*b.data^2, c.grad = 0.
C6_EndToEnd ==
  Len(nodes) = 6 =>
    LET a == IntData(1)
        b == IntData(2)
    IN  /\ nodes[3].data = Const(a + b)
        /\ nodes[6].data = Const(a * b + b * b * b)
        /\ (a = -4 /\ b = 2) => (nodes[3].data = Const(-2) /\ nodes[6].data = Zero)
        /\ (pc = "idle" /\ passes = <<[root |-> 6, flag |-> FALSE]>>) =>
             /\ nodes[6].grad = Const(1)
             /\ nodes[1].grad = Const(b)
             /\ nodes[2].grad = Const(a + 3 * b * b)
             /\ nodes[3].grad = Zero
             /\ (a = -4 /\ b = 2) => (nodes[1].grad = Const(2) /\ nodes[2].grad = Const(8))

C6_Witness ==
  /\ Len(nodes) = 6 /\ IntData(1) = -4 /\ IntData(2) = 2
  /\ pc = "idle" /\ passes = <<[root |-> 6, flag |-> FALSE]>>
  /\ nodes[2].grad = Const(8)

\* C7: ** with a Value as exponent raises at the call and leaves every Value,
\* and the number of Values, as they were.
C7_PowValueExponentRaises ==
  [][\A self, other \in Ids :
       pow(self, ValueRef(other)) => (raised' = "AssertionError" /\ nodes' = nodes)]_vars

C7_Witness == raised = "AssertionError" /\ nodes # <<>>

\* the branches taken so far by the _backward closures that read the flag
BranchesTaken == {used[n] : n \in Ids} \ {"", "none"}

\* C8 (as claimed): before any change of the flag, the operations that consult
\* it propagate by the closed-form formulas.
C8_DefaultIsAnalytic == toggles = 0 => BranchesTaken \subseteq {"analytic"}

\* C8 (amended): before any change of the flag, the operations that consult it
\* propagate by the finite-difference approximation.
C8_DefaultIsFiniteDifference ==
  toggles = 0 => (do_autograd /\ BranchesTaken \subseteq {"fd"})

\* a tanh Value propagated before the flag was ever changed
C8_Witness ==
  /\ toggles = 0
  /\ \E n \in Ids : nodes[n]._backward.fn = "tanh" /\ used[n] = "fd"

\* C9: backward(), from its first statement to its last, changes nothing but
\* the grad of Values reachable from the root.
C9_BackwardFrame ==
  [][(pc = "backward" \/ pc' = "backward") =>
       /\ Len(nodes') = Len(nodes)
       /\ \A n \in Ids :
            /\ nodes'[n].data = nodes[n].data
            /\ nodes'[n]._prev = nodes[n]._prev
            /\ nodes'[n]._op = nodes[n]._op
            /\ n \notin Reachable(nodes, root') => nodes'[n].grad = nodes[n].grad]_vars

\* two passes have returned; the first went through a softplus Value by the
\* closed-form rule, the second started elsewhere and left that Value, out of
\* its reach, with the grad the first gave it
C9_Witness ==
  /\ pc = "idle" /\ Len(passes) = 2
  /\ \E u \in Ids \ Reachable(nodes, root) :
       /\ nodes[u]._backward.fn = "softplus"
       /\ used[u] = "analytic"
       /\ nodes[u].grad # Zero

\* the operands of the root are all leaves
RootOverLeaves == \A l \in nodes[root]._prev : IsLeaf(nodes, l)

\* every completed pass was the same call under the same flag
SamePasses == \A k \in 1..Len(passes) : passes[k] = passes[1]

\* C10: backward() raises nothing and resets no grad: after any pass the root's
\* grad is 1, and after k passes from the same root over leaves each leaf holds
\* k times what one pass from zero gives it.
C10_NoAutomaticReset ==
  /\ pc = "backward" => raised = ""
  /\ (pc = "idle" /\ passes # <<>>) =>
    /\ nodes[root].grad = Const(1)
    /\ (SamePasses /\ RootOverLeaves) =>
         \A l \in nodes[root]._prev :
           nodes[l].grad = PMul(Const(Len(passes)), FreshPass(root, LastPass.flag)[l].grad)

C10_Witness ==
  /\ pc = "idle" /\ Len(passes) = 2 /\ SamePasses /\ RootOverLeaves
  /\ \E l \in nodes[root]._prev :
       /\ nodes[l].grad # Zero
       /\ nodes[l].grad # FreshPass(root, LastPass.flag)[l].grad

====
